---------------------------- MODULE Spec2Model ----------------------------
(***************************************************************************)
(* A model of panel/iv/iv.py: the instrumental-variable estimators         *)
(* IV2SLS, IVLIML and IVGMM, the GMM weight-matrix family and the results  *)
(* containers.                                                             *)
(*                                                                         *)
(* Numbers are exact rationals <<num, den>> (den > 0, lowest terms), so    *)
(* the matrix algebra of the source is computed, not abstracted; floating  *)
(* point rounding is the one thing the model does not represent.  The      *)
(* model has one regressor column (k = 1) and two instrument columns       *)
(* (m = 2), the smallest over-identified shape.                            *)
(***************************************************************************)
EXTENDS Integers, Sequences, FiniteSets, TLC

(***************************************************************************)
(* Bounds of the model.                                                    *)
(***************************************************************************)
MaxIter == 3       \* largest iter_limit passed to IVGMM.fit
MaxReads == 4      \* property reads on one results object
MaxSS == 3         \* largest sum of squares held by a results object
MaxN == 4          \* largest nobs of a results object's model
MaxK == 2          \* largest number of regressors of a results object's model
MaxBw == 2         \* largest kernel bandwidth configured
MaxLabel == 2      \* largest cluster label

(***************************************************************************)
(* Only({e(a) : a \in {A}}) is e(A) with A evaluated once: the way this    *)
(* module binds an intermediate value that is used more than once.         *)
(***************************************************************************)
Only(S) == CHOOSE r \in S : TRUE

(***************************************************************************)
(* Exact rational arithmetic: <<n, d>> is n/d in lowest terms with d > 0.  *)
(***************************************************************************)
Abs(a) == IF a < 0 THEN -a ELSE a

RECURSIVE GCD(_, _)
GCD(A, B) == Only({IF b = 0 THEN a ELSE GCD(b, a % b) : a \in {A}, b \in {B}})

RatOf(n, d, G) ==
    Only({IF d < 0 THEN <<(-n) \div g, (-d) \div g>> ELSE <<n \div g, d \div g>> : g \in {G}})

\* the rational N/D in lowest terms, D # 0
Rat(N, D) == Only({RatOf(n, d, GCD(Abs(n), Abs(d))) : n \in {N}, d \in {D}})

R(n) == <<n, 1>>
RZero == <<0, 1>>
ROne == <<1, 1>>
RNeg(A) == Only({<<-a[1], a[2]>> : a \in {A}})

\* a + b over the least common denominator, G the gcd of the denominators
RAddOf(a, b, G) ==
    Only({Rat(a[1] * (b[2] \div g) + b[1] * (a[2] \div g), (a[2] \div g) * b[2]) : g \in {G}})

RAdd(A, B) == Only({RAddOf(a, b, GCD(a[2], b[2])) : a \in {A}, b \in {B}})

RSub(A, B) == RAdd(A, RNeg(B))

\* a * b, cancelled crosswise before multiplying
RMulOf(a, b, G1, G2) ==
    Only({<<(a[1] \div g1) * (b[1] \div g2), (a[2] \div g2) * (b[2] \div g1)>> :
            g1 \in {G1}, g2 \in {G2}})

RMul(A, B) ==
    Only({RMulOf(a, b, GCD(Abs(a[1]), b[2]), GCD(Abs(b[1]), a[2])) : a \in {A}, b \in {B}})

RInv(B) == Only({IF b[1] < 0 THEN <<-b[2], -b[1]>> ELSE <<b[2], b[1]>> : b \in {B}})

\* A / B for B # 0
RDiv(A, B) == RMul(A, RInv(B))

\* a/b < c/d for a, c >= 0 and b, d > 0, by the continued-fraction expansion
RECURSIVE PosLt(_, _, _, _)
PosLt(A, B, C, D) ==
    Only({IF a \div b # c \div d THEN a \div b < c \div d
          ELSE IF c % d = 0 THEN FALSE
          ELSE IF a % b = 0 THEN TRUE
          ELSE PosLt(d, c % d, b, a % b) : a \in {A}, b \in {B}, c \in {C}, d \in {D}})

RLt(A, B) ==
    Only({IF a[1] < 0
          THEN IF b[1] < 0 THEN PosLt(-b[1], b[2], -a[1], a[2]) ELSE TRUE
          ELSE IF b[1] < 0 THEN FALSE ELSE PosLt(a[1], a[2], b[1], b[2]) :
            a \in {A}, b \in {B}})

RGt(A, B) == RLt(B, A)
RLe(A, B) == ~RLt(B, A)

(***************************************************************************)
(* Matrices are sequences of rows; a row is a sequence of rationals.       *)
(* Vec turns a function of the index into the sequence of its values.      *)
(***************************************************************************)
Vec(f) == f \o <<>>

NRows(a) == Len(a)
NCols(a) == IF Len(a) = 0 THEN 0 ELSE Len(a[1])

\* the sum of the elements lo.. of the sequence of rationals f
RECURSIVE RSumFrom(_, _)
RSumFrom(f, lo) ==
    IF lo > Len(f) THEN RZero ELSE RAdd(f[lo], RSumFrom(f, lo + 1))

RSum(F) == Only({RSumFrom(f, 1) : f \in {F}})

MT(A) ==
    Only({Vec([j \in 1..NCols(a) |-> Vec([i \in 1..NRows(a) |-> a[i][j]])]) : a \in {A}})

MMul(A, B) ==
    Only({Vec([i \in 1..NRows(a) |->
              Vec([j \in 1..NCols(b) |->
                  RSum(Vec([l \in 1..NCols(a) |-> RMul(a[i][l], b[l][j])]))])]) :
            a \in {A}, b \in {B}})

MScale(C, A) ==
    Only({Vec([i \in 1..NRows(a) |-> Vec([j \in 1..NCols(a) |-> RMul(c, a[i][j])])]) :
            c \in {C}, a \in {A}})

MAdd(A, B) ==
    Only({Vec([i \in 1..NRows(a) |-> Vec([j \in 1..NCols(a) |-> RAdd(a[i][j], b[i][j])])]) :
            a \in {A}, b \in {B}})

MSub(A, B) ==
    Only({Vec([i \in 1..NRows(a) |-> Vec([j \in 1..NCols(a) |-> RSub(a[i][j], b[i][j])])]) :
            a \in {A}, b \in {B}})

MZeros(r, c) == Vec([i \in 1..r |-> Vec([j \in 1..c |-> RZero])])
Eye(n) == Vec([i \in 1..n |-> Vec([j \in 1..n |-> IF i = j THEN ROne ELSE RZero])])
Col(A, j) == Only({Vec([i \in 1..NRows(a) |-> a[i][j]]) : a \in {A}})
ColVec(V) == Only({Vec([i \in 1..Len(v) |-> <<v[i]>>]) : v \in {V}})
IntVec(V) == Only({Vec([i \in 1..Len(v) |-> R(v[i])]) : v \in {V}})

\* the matrix without row i and column j
Minor(A, i, j) ==
    Only({Vec([r \in 1..(NRows(a) - 1) |->
              Vec([c \in 1..(NCols(a) - 1) |->
                  a[IF r < i THEN r ELSE r + 1][IF c < j THEN c ELSE c + 1]])]) : a \in {A}})

\* the determinant, expanded along the first row
RECURSIVE Det(_)
Det(A) ==
    Only({IF NRows(a) = 0 THEN ROne
          ELSE IF NRows(a) = 1 THEN a[1][1]
          ELSE RSum(Vec([j \in 1..NCols(a) |->
                           RMul(IF j % 2 = 1 THEN a[1][j] ELSE RNeg(a[1][j]),
                                Det(Minor(a, 1, j)))])) : a \in {A}})

Sign(i, j) == IF (i + j) % 2 = 0 THEN ROne ELSE <<-1, 1>>
Cofactor(a, i, j) == RMul(Sign(i, j), Det(Minor(a, i, j)))

(***************************************************************************)
(* Results of an operation that may raise: err is "none" or the name of    *)
(* the exception, val the value returned.                                  *)
(***************************************************************************)
Ok(v) == [err |-> "none", val |-> v]
Raise(e) == [err |-> e, val |-> <<>>]

\* Python's None and a present value
None == <<>>
Some(v) == <<v>>

\* the inverse of a, whose determinant is D
invOf(a, D) ==
    Only({IF d = RZero THEN Raise("LinAlgError")
          ELSE Ok(Vec([i \in 1..NRows(a) |->
                     Vec([j \in 1..NCols(a) |-> RDiv(Cofactor(a, j, i), d)])])) : d \in {D}})

\* numpy.linalg.inv: LinAlgError on a singular matrix
inv(A) == Only({invOf(a, Det(a)) : a \in {A}})

\* A'A
Gram(A) == Only({MMul(MT(a), a) : a \in {A}})

\* the rank of a matrix of at most two columns whose Gram determinant is D
RankOf(a, D) ==
    IF NCols(a) = 0 \/ a = MZeros(NRows(a), NCols(a)) THEN 0
    ELSE IF NCols(a) = 1 \/ D = RZero THEN 1 ELSE 2

\* numpy.linalg.matrix_rank, for matrices of at most two columns
matrix_rank(A) ==
    Only({RankOf(a, IF NCols(a) = 2 THEN Det(Gram(a)) ELSE ROne) : a \in {A}})

\* numpy.linalg.pinv of a matrix of full column rank: (A'A)^-1 A'
pinv(A) == Only({MMul(inv(Gram(a)).val, MT(a)) : a \in {A}})

\* e'e of a column vector, as a rational
SumSq(E) == Only({RSum(Vec([i \in 1..NRows(e) |-> RMul(e[i][1], e[i][1])])) : e \in {E}})

\* the mean of a column vector
Mean(V) == Only({RDiv(RSum(Col(v, 1)), R(NRows(v))) : v \in {V}})

(***************************************************************************)
(* The weight-matrix family.  A strategy object is [cls, _config,          *)
(* _bandwidth]; a configuration is a function from option names to values. *)
(***************************************************************************)
WeightClasses ==
    {"HomoskedasticWeightMatrix", "HeteroskedasticWeightMatrix",
     "KernelWeightMatrix", "OneWayClusteredWeightMatrix"}

\* a configuration with the keys S and the given values
MkConfig(S, center, kernel, bw, clusters) ==
    [key \in S |->
        CASE key = "center" -> center
          [] key = "kernel" -> kernel
          [] key = "bw" -> bw
          [] key = "clusters" -> clusters
          [] OTHER -> 1]

HomoskedasticDefaults == MkConfig({"center"}, FALSE, "bartlett", None, None)

KernelDefaults == MkConfig({"kernel", "center", "bw"}, FALSE, "bartlett", None, None)

OneWayClusteredDefaults == MkConfig({"clusters", "center"}, FALSE, "bartlett", None, None)

defaults_of_base_class(cls) == HomoskedasticDefaults

\* the defaults property, resolved on the object's own class
defaults(cls) ==
    CASE cls = "KernelWeightMatrix" -> KernelDefaults
      [] cls = "OneWayClusteredWeightMatrix" -> OneWayClusteredDefaults
      [] OTHER -> HomoskedasticDefaults

\* dict.update
DictUpdate(d, kw) ==
    [key \in (DOMAIN d) \cup (DOMAIN kw) |-> IF key \in DOMAIN kw THEN kw[key] ELSE d[key]]

\* HomoskedasticWeightMatrix.__init__, which the three subclasses call first
WeightMatrix_init(cls, weight_config) ==
    IF \E key \in DOMAIN weight_config : key \notin DOMAIN defaults(cls)
    THEN Raise("ValueError")
    ELSE Ok([cls |-> cls,
             _config |-> DictUpdate(defaults(cls), weight_config),
             _bandwidth |-> 0])

\* z * eps: row i of z scaled by eps[i]
RowScale(Z, EPS) ==
    Only({Vec([i \in 1..NRows(z) |-> Vec([j \in 1..NCols(z) |-> RMul(z[i][j], eps[i][1])])]) :
            z \in {Z}, eps \in {EPS}})

\* ze.mean(axis=0)
ColMeans(ZE) ==
    Only({Vec([j \in 1..NCols(ze) |-> RDiv(RSum(Col(ze, j)), R(NRows(ze)))]) : ze \in {ZE}})

\* ze - mu, the row mu subtracted from every row
SubRow(ZE, MU) ==
    Only({Vec([i \in 1..NRows(ze) |-> Vec([j \in 1..NCols(ze) |-> RSub(ze[i][j], mu[j])])]) :
            ze \in {ZE}, mu \in {MU}})

\* ze = z * eps; mu = ze.mean(axis=0) if wc['center'] else 0; ze -= mu
Centered(wc, z, eps) ==
    Only({IF wc["center"] THEN SubRow(ze, ColMeans(ze)) ELSE ze : ze \in {RowScale(z, eps)}})

\* s / nobs
Over(s, nobs) == MScale(RDiv(ROne, R(nobs)), s)

\* HomoskedasticWeightMatrix.weight_matrix
Homoskedastic_weight_matrix(x, z, eps) ==
    Ok(Over(MMul(MScale(RDiv(SumSq(eps), R(NRows(x))), MT(z)), z), NRows(x)))

\* HeteroskedasticWeightMatrix.weight_matrix
Heteroskedastic_weight_matrix(wc, x, z, eps) ==
    Ok(Over(Gram(Centered(wc, z, eps)), NRows(x)))

\* KernelWeightMatrix._kernels: the names that select a kernel function
KernelNames ==
    {"bartlett", "newey-west", "parzen", "gallant", "andrews", "quadratic-spectral", "qs"}

\* kernel_weight_bartlett(bw)[i]
kernel_weight_bartlett(bw, i) == RSub(ROne, RDiv(R(i), R(bw + 1)))

\* rows lo..hi of a matrix
Rows(a, lo, hi) == SubSeq(a, lo, hi)

\* ze[i:].T @ ze[:-i]
LagProduct(ze, i) ==
    IF i >= NRows(ze) THEN MZeros(NCols(ze), NCols(ze))
    ELSE MMul(MT(Rows(ze, i + 1, NRows(ze))), Rows(ze, 1, NRows(ze) - i))

\* for i in range(i, bw + 1): s += w[i] * ze[i:].T @ ze[:-i]
RECURSIVE KernelSum(_, _, _, _)
KernelSum(S, ze, bw, i) ==
    Only({IF i > bw THEN s
          ELSE KernelSum(MAdd(s, MScale(kernel_weight_bartlett(bw, i), LagProduct(ze, i))),
                         ze, bw, i + 1) : s \in {S}})

\* bw = wc['bw'] if wc['bw'] is not None else nobs - 2
Bandwidth(wc, nobs) == IF wc["bw"] # None THEN wc["bw"][1] ELSE nobs - 2

KernelOf(wc, ZE, nobs) ==
    Only({IF wc["kernel"] \notin KernelNames THEN Raise("KeyError")
          ELSE Ok(Over(KernelSum(Gram(ze), ze, Bandwidth(wc, nobs), 1), nobs)) : ze \in {ZE}})

\* KernelWeightMatrix.weight_matrix, for the kernels that select kernel_weight_bartlett
Kernel_weight_matrix(wc, x, z, eps) == KernelOf(wc, Centered(wc, z, eps), NRows(z))

\* the place label i takes when the labels c are sorted, ties in their order
Rank(c, i) == Cardinality({j \in 1..Len(c) : c[j] < c[i] \/ (c[j] = c[i] /\ j < i)}) + 1

\* numpy.argsort: position r holds the index of the r-th smallest label
argsort(C) ==
    Only({Vec([r \in 1..Len(c) |-> CHOOSE i \in 1..Len(c) : Rank(c, i) = r]) : c \in {C}})

\* a[ind]
Take(A, IND) == Only({Vec([r \in 1..Len(ind) |-> a[ind[r]]]) : a \in {A}, ind \in {IND}})

\* the elements of a set of numbers in increasing order
RECURSIVE SortedSeq(_)
SortedSeq(S) ==
    Only({IF s = {} THEN <<>>
          ELSE Only({<<m>> \o SortedSeq(s \ {m}) : m \in {v \in s : \A u \in s : v <= u}}) :
            s \in {S}})

ClusterLocsDropLast(C) ==
    Only({SortedSeq({t - 1 : t \in {u \in 1..Len(c) : u = 1 \/ c[u] # c[u - 1]}}) : c \in {C}})

\* nonzero(r_[True, clusters[1:] != clusters[:-1], True])[0], 0-based
ClusterLocs(C) ==
    Only({SortedSeq({t - 1 : t \in {u \in 1..(Len(c) + 1) :
                                      u = 1 \/ u = Len(c) + 1 \/ c[u] # c[u - 1]}}) :
            c \in {C}})

\* for sloc, eloc in zip(st, en): zec = ze[sloc:eloc]; s += zec.T @ zec
RECURSIVE ClusterSum(_, _, _, _)
ClusterSum(S, ze, locs, q) ==
    Only({IF q >= Len(locs) THEN s
          ELSE ClusterSum(MAdd(s, Gram(Rows(ze, locs[q] + 1, locs[q + 1]))), ze, locs, q + 1) :
            s \in {S}})

\* clusters = arange(nobs) if clusters is None else clusters
ClustersOf(wc, nobs) ==
    IF wc["clusters"] = None THEN Vec([i \in 1..nobs |-> i - 1]) ELSE wc["clusters"][1]

\* the sum over the clusters of the sorted rows ZE with the sorted labels CLUSTERS
OneWaySorted(ZE, CLUSTERS, nobs, ninstr) ==
    Only({Ok(Over(ClusterSum(MZeros(ninstr, ninstr), ze, locs, 1), nobs)) :
            ze \in {ZE}, locs \in {ClusterLocs(CLUSTERS)}})

OneWayOf(ZE, CLUSTERS, nobs, ninstr) ==
    Only({OneWaySorted(Take(ZE, ind), Take(clusters, ind), nobs, ninstr) :
            clusters \in {CLUSTERS}, ind \in {argsort(CLUSTERS)}})

\* OneWayClusteredWeightMatrix.weight_matrix
OneWayClustered_weight_matrix(wc, x, z, eps) ==
    OneWayOf(Centered(wc, z, eps), ClustersOf(wc, NRows(z)), NRows(z), NCols(z))

\* weight_matrix, dispatched on the class of the strategy object
weight_matrix(obj, x, z, eps) ==
    CASE obj.cls = "HomoskedasticWeightMatrix" -> Homoskedastic_weight_matrix(x, z, eps)
      [] obj.cls = "HeteroskedasticWeightMatrix" ->
            Heteroskedastic_weight_matrix(obj._config, x, z, eps)
      [] obj.cls = "KernelWeightMatrix" -> Kernel_weight_matrix(obj._config, x, z, eps)
      [] OTHER -> OneWayClustered_weight_matrix(obj._config, x, z, eps)

(***************************************************************************)
(* The registries.                                                         *)
(***************************************************************************)
CovarianceNames ==
    {"homoskedastic", "unadjusted", "homo", "robust", "heteroskedastic", "hccm",
     "newey-west", "bartlett", "one-way"}

COVARIANCE_ESTIMATORS(name) ==
    CASE name \in {"homoskedastic", "unadjusted", "homo"} -> "HomoskedasticCovariance"
      [] name \in {"robust", "heteroskedastic", "hccm"} -> "HeteroskedasticCovariance"
      [] name \in {"newey-west", "bartlett"} -> "KernelCovariance"
      [] name = "one-way" -> "OneWayClusteredCovariance"

WeightNames ==
    {"unadjusted", "homoskedastic", "robust", "heteroskedastic", "kernel", "clustered"}

WEIGHT_MATRICES(name) ==
    CASE name \in {"unadjusted", "homoskedastic"} -> "HomoskedasticWeightMatrix"
      [] name \in {"robust", "heteroskedastic"} -> "HeteroskedasticWeightMatrix"
      [] name = "kernel" -> "KernelWeightMatrix"
      [] name = "clustered" -> "OneWayClusteredWeightMatrix"

(***************************************************************************)
(* Collaborators that live outside iv.py.                                  *)
(***************************************************************************)
\* panel.utility.has_constant: some column is one non-zero value throughout
has_constant(x) ==
    \E j \in 1..NCols(x) : x[1][j] # RZero /\ \A i \in 1..NRows(x) : x[i][j] = x[1][j]

\* <estimator>(x, y, z, params, ...).cov: the estimator applied, kept symbolic
CovOf(estimator, params) == [estimator |-> estimator, params |-> params]

(***************************************************************************)
(* Construction.  self is the estimator object: the fields every class     *)
(* sets, with None for those a class does not have.  algebra lists the     *)
(* matrix-algebra calls made on the inputs, in order.                      *)
(***************************************************************************)
\* all(xc == 1) or (xc.ptp(axis=0) == 0 and xc[0] != 0)
IsConstantColumn(x, col) ==
    x[1][col] # RZero /\ \A i \in 1..NRows(x) : x[i][col] = x[1][col]

\* any(all(xc[:, None] == z, axis=0))
IsInstrument(x, z, col) ==
    \E j \in 1..NCols(z) : \A i \in 1..NRows(x) : x[i][col] = z[i][j]

\* params = pinvz @ xc; e = xc - z @ params; ((e.T @ e) / (xc.T @ xc)) < 1e-8
Projected(xc, z, pinvz) ==
    RLt(RDiv(SumSq(MSub(xc, MMul(z, MMul(pinvz, xc)))), SumSq(xc)), Rat(1, 100000000))

\* what the loop of _validate_inputs stores for column col
RegressorIsExog(x, z, col) ==
    \/ IsConstantColumn(x, col)
    \/ IsInstrument(x, z, col)
    \/ Projected(ColVec(Col(x, col)), z, pinv(z))

\* the matrix-algebra calls the loop makes for column col
ColumnAlgebra(x, z, col) ==
    IF IsConstantColumn(x, col) \/ IsInstrument(x, z, col)
    THEN <<"pinv">>
    ELSE <<"pinv", "projection">>

RECURSIVE ColumnsAlgebra(_, _, _)
ColumnsAlgebra(x, z, col) ==
    IF col > NCols(x) THEN <<>>
    ELSE ColumnAlgebra(x, z, col) \o ColumnsAlgebra(x, z, col + 1)

ValidatedOf(x, z, hc, rx, rz) ==
    IF rx < NCols(x)
    THEN [err |-> "ValueError", algebra |-> <<"has_constant", "matrix_rank">>,
          _has_constant |-> hc, _regressor_is_exog |-> <<>>]
    ELSE IF rz < NCols(z)
    THEN [err |-> "ValueError", algebra |-> <<"has_constant", "matrix_rank", "matrix_rank">>,
          _has_constant |-> hc, _regressor_is_exog |-> <<>>]
    ELSE [err |-> "none",
          algebra |-> <<"has_constant", "matrix_rank", "matrix_rank">>
                        \o ColumnsAlgebra(x, z, 1),
          _has_constant |-> hc,
          _regressor_is_exog |-> Vec([col \in 1..NCols(x) |-> RegressorIsExog(x, z, col)])]

\* IV2SLS._validate_inputs
validate_inputs(x, z) == ValidatedOf(x, z, has_constant(x), matrix_rank(x), matrix_rank(z))

NoObject ==
    [cls |-> "", _has_constant |-> FALSE, _regressor_is_exog |-> <<>>, _kappa |-> None,
     _weight |-> None, _weight_type |-> "", _weight_config |-> None]

IV2SLSOf(cls, v) ==
    [err |-> v.err, algebra |-> v.algebra,
     self |-> IF v.err # "none" THEN NoObject
              ELSE [NoObject EXCEPT !.cls = cls,
                                    !._has_constant = v._has_constant,
                                    !._regressor_is_exog = v._regressor_is_exog]]

\* IV2SLS.__init__
IV2SLS_init(cls, x, z) == IV2SLSOf(cls, validate_inputs(x, z))

IVLIMLOf(b, kappa) ==
    IF b.err # "none" THEN b
    ELSE IF kappa # None /\ ~kappa[1].scalar
    THEN [b EXCEPT !.err = "ValueError", !.self = NoObject]
    ELSE [b EXCEPT !.self._kappa = kappa]

\* IVLIML.__init__; kappa is None or Some([scalar, val])
IVLIML_init(x, z, kappa) == IVLIMLOf(IV2SLS_init("IVLIML", x, z), kappa)

IVGMMWith(b, weight_type, wm) ==
    IF wm.err # "none" THEN [b EXCEPT !.err = wm.err, !.self = NoObject]
    ELSE [b EXCEPT !.self._weight = Some(wm.val),
                   !.self._weight_type = weight_type,
                   !.self._weight_config = Some(wm.val._config)]

IVGMMOf(b, weight_type, weight_config) ==
    IF b.err # "none" THEN b
    ELSE IF weight_type \notin WeightNames
    THEN [b EXCEPT !.err = "KeyError", !.self = NoObject]
    ELSE IVGMMWith(b, weight_type,
                   WeightMatrix_init(WEIGHT_MATRICES(weight_type), weight_config))

\* IVGMM.__init__
IVGMM_init(x, z, weight_type, weight_config) ==
    IVGMMOf(IV2SLS_init("IVGMM", x, z), weight_type, weight_config)

(***************************************************************************)
(* Parameter estimation.                                                   *)
(***************************************************************************)
\* inv(...) @ b, A being what inv returned or raised
Solve(A, b) == Only({IF a.err # "none" THEN Raise(a.err) ELSE Ok(MMul(a.val, b)) : a \in {A}})

IV2SLSParams(x, y, XPZ, PINVZ) ==
    Only({Solve(inv(MMul(xpz, MMul(pinvz, x))), MMul(xpz, MMul(pinvz, y))) :
            xpz \in {XPZ}, pinvz \in {PINVZ}})

\* IV2SLS.estimate_parameters
IV2SLS_estimate_parameters(x, y, z) == IV2SLSParams(x, y, MMul(MT(x), z), pinv(z))

IVLIMLParams(x, y, kappa, XPZ, PINVZ) ==
    Only({Solve(inv(MAdd(MScale(RSub(ROne, kappa), Gram(x)),
                         MScale(kappa, MMul(xpz, MMul(pinvz, x))))),
                MAdd(MScale(RSub(ROne, kappa), MMul(MT(x), y)),
                     MScale(kappa, MMul(xpz, MMul(pinvz, y))))) :
            xpz \in {XPZ}, pinvz \in {PINVZ}})

\* IVLIML.estimate_parameters
IVLIML_estimate_parameters(x, y, z, kappa) ==
    IVLIMLParams(x, y, kappa, MMul(MT(x), z), pinv(z))

IVGMMParams(XPZW, xpz, zpy) ==
    Only({Solve(inv(MMul(xpzw, MT(xpz))), MMul(xpzw, zpy)) : xpzw \in {XPZW}})

IVGMMParamsOf(XPZ, zpy, w) == Only({IVGMMParams(MMul(xpz, w), xpz, zpy) : xpz \in {XPZ}})

\* IVGMM.estimate_parameters
IVGMM_estimate_parameters(x, y, z, w) == IVGMMParamsOf(MMul(MT(x), z), MMul(MT(z), y), w)

\* IV2SLS.resids
resids(y, x, params) == MSub(y, MMul(x, params))

\* (y - mu).T @ (y - mu)
SSAbout(y, MU) == Only({SumSq(Vec([i \in 1..NRows(y) |-> <<RSub(y[i][1], mu)>>])) : mu \in {MU}})

\* mu = self.endog.mean() if self.has_constant else 0;  (y - mu).T @ (y - mu)
ModelSS(self, y) == SSAbout(y, IF self._has_constant THEN Mean(y) ELSE RZero)

\* r2 = 1 - residual_ss / model_ss; None stands for the nan or inf of a zero model_ss
RSquared(residual_ss, model_ss) ==
    IF model_ss = RZero THEN None ELSE Some(RSub(ROne, RDiv(residual_ss, model_ss)))

(***************************************************************************)
(* Results objects.                                                        *)
(***************************************************************************)
\* IVResults.__init__
IVResults_init(params, cov, r2, cov_type, rss, tss, kappa) ==
    [cls |-> "IVResults", _params |-> params, _cov |-> cov, _r2 |-> r2,
     _cov_type |-> cov_type, _rss |-> rss, _tss |-> tss, _kappa |-> kappa,
     _weight_mat |-> None, _weight_type |-> "", _weight_config |-> None,
     _iterations |-> 0]

\* IVGMMResults.__init__
IVGMMResults_init(params, cov, r2, cov_type, rss, tss, weight_mat, weight_type, weight_config, iterations) ==
    [IVResults_init(params, cov, r2, cov_type, rss, tss, ROne)
        EXCEPT !.cls = "IVGMMResults", !._weight_mat = Some(weight_mat),
               !._weight_type = weight_type, !._weight_config = weight_config,
               !._iterations = iterations]

(***************************************************************************)
(* fit.  Each returns [err, val]: the exception raised, or the results.    *)
(***************************************************************************)
\* the statements of fit from eps on
FitOf(params, cov_type, RSS, TSS, kappa) ==
    Only({Ok(IVResults_init(params, CovOf(COVARIANCE_ESTIMATORS(cov_type), params),
                            RSquared(residual_ss, model_ss), cov_type,
                            residual_ss, model_ss, kappa)) :
            residual_ss \in {RSS}, model_ss \in {TSS}})

\* the statements of fit that follow estimate_parameters, P being what it returned
FitWith(self, y, x, P, cov_type, kappa) ==
    Only({IF p.err # "none" THEN Raise(p.err)
          ELSE IF cov_type \notin CovarianceNames THEN Raise("KeyError")
          ELSE FitOf(p.val, cov_type, SumSq(resids(y, x, p.val)), ModelSS(self, y), kappa) :
            p \in {P}})

\* IV2SLS.fit
IV2SLS_fit(self, y, x, z, cov_type) ==
    FitWith(self, y, x, IV2SLS_estimate_parameters(x, y, z), cov_type, ROne)

\* kappa = self._kappa, or min(eigvalsh(q)) when it is None: eig is that eigenvalue
KappaOf(self, eig) == IF self._kappa = None THEN eig ELSE self._kappa[1].val

\* IVLIML.fit
IVLIML_fit(self, y, x, z, cov_type, eig) ==
    FitWith(self, y, x, IVLIML_estimate_parameters(x, y, z, KappaOf(self, eig)),
            cov_type, KappaOf(self, eig))

(***************************************************************************)
(* IVGMM.fit, in the steps of its loop.  loc holds the locals of fit; a    *)
(* local that has not been assigned yet is None.                           *)
(***************************************************************************)
LoopContinuesWithoutTol(i, iter_limit, norm, tol) == i < iter_limit

\* while i < iter_limit and norm > tol
LoopContinues(i, iter_limit, norm, tol) == i < iter_limit /\ RGt(norm, tol)

NextIterSkipping(i) == i + 2

\* i += 1
NextIter(i) == i + 1

BeginOf(P, tol) ==
    Only({IF p.err # "none" THEN Raise(p.err)
          ELSE Ok([params |-> p.val, _params |-> p.val, i |-> 1,
                   norm |-> RMul(R(10), tol), eps |-> None, w |-> None, vinv |-> None]) :
            p \in {P}})

\* the statements before the loop
IVGMM_fit_begin(y, x, z, tol) ==
    BeginOf(IVGMM_estimate_parameters(x, y, z, Eye(NCols(z))), tol)

\* delta.T @ vinv @ delta
Norm(DELTA, vinv) == Only({MMul(MMul(MT(delta), vinv), delta)[1][1] : delta \in {DELTA}})

\* _params = params; norm = delta.T @ vinv @ delta; i += 1, VI being what inv(v) returned
PassEnd(loc, eps, w, params, VI) ==
    Only({IF vi.err # "none" THEN Raise(vi.err)
          ELSE Ok([params |-> params, _params |-> params, i |-> NextIter(loc.i),
                   norm |-> Norm(MSub(params, loc._params), vi.val),
                   eps |-> Some(eps), w |-> Some(w), vinv |-> Some(vi.val)]) : vi \in {VI}})

\* v = (xpz @ w @ xpz.T) / nobs with xpz = x.T @ z / nobs
VOf(XPZ, w, nobs) == Only({Over(MMul(MMul(xpz, w), MT(xpz)), nobs) : xpz \in {XPZ}})

\* if i == 1: vinv = inv(v); otherwise the vinv of the first pass
VinvOf(loc, x, z, w, nobs) ==
    IF loc.i = 1 THEN inv(VOf(Over(MMul(MT(x), z), nobs), w, nobs)) ELSE Ok(loc.vinv[1])

\* params = self.estimate_parameters(x, y, z, w) and what follows it
PassWith(y, x, z, loc, eps, w) ==
    Only({IF p.err # "none" THEN Raise(p.err)
          ELSE PassEnd(loc, eps, w, p.val, VinvOf(loc, x, z, w, NRows(y))) :
            p \in {IVGMM_estimate_parameters(x, y, z, w)}})

\* w = inv(...) and what follows it, WM being what weight_matrix returned
PassOf(y, x, z, loc, eps, WM) ==
    Only({IF wm.err # "none" THEN Raise(wm.err)
          ELSE Only({IF w.err # "none" THEN Raise(w.err)
                     ELSE PassWith(y, x, z, loc, eps, w.val) : w \in {inv(wm.val)}}) :
            wm \in {WM}})

\* one pass of the loop body
IVGMM_fit_pass(self, y, x, z, loc) ==
    Only({PassOf(y, x, z, loc, eps, weight_matrix(self._weight[1], x, z, eps)) :
            eps \in {MSub(y, MMul(x, loc.params))}})

EndOf(self, loc, cov_type, RSS, TSS) ==
    Only({Ok(IVGMMResults_init(loc.params, CovOf("IVGMMCovariance", loc.params),
                               RSquared(residual_ss, model_ss), cov_type,
                               residual_ss, model_ss, loc.w[1], self._weight_type,
                               self._weight_config, loc.i)) :
            residual_ss \in {RSS}, model_ss \in {TSS}})

\* the statements after the loop: w and eps are unbound if no pass was made
IVGMM_fit_end(self, y, loc, cov_type) ==
    IF loc.w = None THEN Raise("UnboundLocalError")
    ELSE EndOf(self, loc, cov_type, SumSq(loc.eps[1]), ModelSS(self, y))

(***************************************************************************)
(* The properties of a results object.  model is [nobs, nvar], the shape   *)
(* of the data of the estimator that produced it.                          *)
(***************************************************************************)
\* numpy.sqrt of a rational that is a perfect square
ISqrt(n) == CHOOSE s \in 0..n : s * s = n
Sqrt(r) == <<ISqrt(r[1]), ISqrt(r[2])>>

\* 2 - 2 * stats.norm.cdf(a), kept symbolic
NormTail(a) == [two_sided_tail_beyond |-> a]

RAbs(a) == <<Abs(a[1]), a[2]>>

rsquared_adj_inverted(res, model) ==
    IF model.nobs = model.nvar THEN Raise("ZeroDivisionError")
    ELSE Ok(RSub(ROne, RMul(Rat(model.nobs - model.nvar, model.nobs - 1),
                            RSub(ROne, res._r2[1]))))

\* IVResults.rsquared_adj
rsquared_adj(res, model) ==
    IF model.nobs = model.nvar THEN Raise("ZeroDivisionError")
    ELSE Ok(RSub(ROne, RMul(Rat(model.nobs - 1, model.nobs - model.nvar),
                            RSub(ROne, res._r2[1]))))

\* IVResults.std_errors: sqrt(diag(self.cov))[:, None]
std_errors(res) == Vec([i \in 1..NRows(res._cov) |-> <<Sqrt(res._cov[i][i])>>])

\* self.params / se
Ratio(params, se) == Vec([i \in 1..NRows(params) |-> <<RDiv(params[i][1], se[i][1])>>])

\* IVResults.tstats
tstats(res) == Ratio(res._params, std_errors(res))

\* 2 - 2 * stats.norm.cdf(abs(t))
PValuesOf(t) == Vec([i \in 1..NRows(t) |-> <<NormTail(RAbs(t[i][1]))>>])

(***************************************************************************)
(* State.                                                                  *)
(*   endog, exog, instruments   the three data matrices                    *)
(*   pc, error                  where the estimator's caller stands, and   *)
(*                              the exception raised ("none" if none)      *)
(*   algebra                    the matrix-algebra calls construction made *)
(*   ctor, self                 the constructor's arguments, the object    *)
(*   args, loc, passes, result  fit's arguments and locals, the loop       *)
(*                              passes made, the results object returned   *)
(*   wm_*                       a weight-matrix strategy used on its own   *)
(*   res, res_model, cache, computed, reads, returned                      *)
(*                              a results object and the reads made of it  *)
(***************************************************************************)
VARIABLES endog, exog, instruments, pc, error, algebra, ctor, self, args, loc,
          passes, result, wm_pc, wm_args, wm_obj, wm_error, wm_eps, wm_out,
          res, res_model, cache, computed, reads, returned

dataVars == <<endog, exog, instruments>>
estVars == <<pc, error, algebra, ctor, self, args, loc, passes, result>>
wmVars == <<wm_pc, wm_args, wm_obj, wm_error, wm_eps, wm_out>>
resVars == <<res, res_model, cache, computed, reads, returned>>
vars == <<dataVars, estVars, wmVars, resVars>>

(***************************************************************************)
(* Inputs.                                                                 *)
(***************************************************************************)
\* The datasets: three observations of one regressor x, the outcome y and
\* the instruments [1, z2].  They are the 0/1 datasets for which every number
\* that three passes of IVGMM.fit compute stays within TLC's integers.
Binary3 == {<<a, b, c>> : a \in {0, 1}, b \in {0, 1}, c \in {0, 1}}
Trend == <<0, 1, 2>>
Dummy == <<1, 0, 0>>
Ones == <<1, 1, 1>>
Datasets ==
    {<<x, y, Dummy>> : x \in {<<0, 1, 0>>, <<0, 1, 1>>}, y \in Binary3}
    \cup {<<Dummy, y, Trend>> : y \in Binary3}
    \cup {<<Dummy, y, Dummy>> : y \in {<<0, 0, 1>>, <<0, 1, 1>>, <<1, 0, 1>>}}
    \cup {<<Ones, y, Trend>> : y \in {<<0, 1, 0>>, <<1, 0, 1>>, <<1, 1, 1>>}}
    \cup {<<<<0, 0, 0>>, <<0, 1, 1>>, Trend>>, <<<<0, 1, 0>>, <<0, 1, 1>>, Ones>>}

EmptyConfig == MkConfig({}, FALSE, "bartlett", None, None)

GMMWeightTypes == {"homoskedastic", "robust", "kernel", "clustered", "bogus"}
GMMWeightConfigs == {EmptyConfig, MkConfig({"center"}, TRUE, "bartlett", None, None),
                     MkConfig({"bogus"}, FALSE, "bartlett", None, None)}
KappaInputs == {None, Some([scalar |-> TRUE, val |-> ROne]),
                Some([scalar |-> TRUE, val |-> Rat(1, 2)]),
                Some([scalar |-> FALSE, val |-> RZero])}
EigenValues == {ROne, Rat(3, 2)}
CovTypeInputs == {"robust", "bogus"}
TolInputs == {Rat(1, 10000), R(100)}

NoCtor == [cls |-> "", kappa |-> None, weight_type |-> "", weight_config |-> EmptyConfig]
NoArgs == [iter_limit |-> 0, tol |-> RZero, cov_type |-> ""]
NoLocals == [params |-> <<>>, _params |-> <<>>, i |-> 0, norm |-> RZero,
             eps |-> None, w |-> None, vinv |-> None]

EstIdle ==
    /\ pc = "idle" /\ error = "none" /\ algebra = <<>> /\ ctor = NoCtor
    /\ self = NoObject /\ args = NoArgs /\ loc = NoLocals /\ passes = 0
    /\ result = None

WMIdle ==
    /\ wm_pc = "idle" /\ wm_args = [cls |-> "", weight_config |-> EmptyConfig]
    /\ wm_obj = None /\ wm_error = "none" /\ wm_eps = <<>> /\ wm_out = None

NoReturn == [stat |-> "", err |-> "none", val |-> <<>>]
NoneComputed == [std_errors |-> 0, tstats |-> 0, pvalues |-> 0]

ResIdle ==
    /\ res = None /\ res_model = [nobs |-> 0, nvar |-> 0] /\ cache = EmptyConfig
    /\ computed = NoneComputed /\ reads = 0 /\ returned = NoReturn

(***************************************************************************)
(* The estimators: construction, then one call of fit.                     *)
(***************************************************************************)
InitEst ==
    /\ \E d \in Datasets :
          /\ exog = ColVec(IntVec(d[1]))
          /\ endog = ColVec(IntVec(d[2]))
          /\ instruments = Vec([i \in 1..Len(d[3]) |-> <<ROne, R(d[3][i])>>])
    /\ pc = "new" /\ error = "none" /\ algebra = <<>> /\ ctor = NoCtor
    /\ self = NoObject /\ args = NoArgs /\ loc = NoLocals /\ passes = 0
    /\ result = None
    /\ WMIdle /\ ResIdle

\* the state a constructor call leaves: r is what __init__ did
Constructed(c, OUT) ==
    /\ pc = "new"
    /\ ctor' = c
    /\ \E r \in {OUT} :
          /\ error' = r.err
          /\ algebra' = r.algebra
          /\ self' = r.self
          /\ pc' = IF r.err = "none" THEN "ready" ELSE "init_failed"
    /\ UNCHANGED <<dataVars, args, loc, passes, result, wmVars, resVars>>

ConstructIV2SLS ==
    Constructed([NoCtor EXCEPT !.cls = "IV2SLS"], IV2SLS_init("IV2SLS", exog, instruments))

ConstructIVLIML ==
    \E kappa \in KappaInputs :
        Constructed([NoCtor EXCEPT !.cls = "IVLIML", !.kappa = kappa],
                    IVLIML_init(exog, instruments, kappa))

ConstructIVGMM ==
    \E weight_type \in GMMWeightTypes, weight_config \in GMMWeightConfigs :
        Constructed([NoCtor EXCEPT !.cls = "IVGMM", !.weight_type = weight_type,
                                   !.weight_config = weight_config],
                    IVGMM_init(exog, instruments, weight_type, weight_config))

\* the state a whole call of fit leaves: r is [err, val]
Fitted(a, OUT) ==
    /\ args' = a
    /\ \E r \in {OUT} :
          /\ error' = r.err
          /\ result' = IF r.err = "none" THEN Some(r.val) ELSE None
          /\ pc' = IF r.err = "none" THEN "done" ELSE "fit_failed"

FitIV2SLS ==
    /\ pc = "ready" /\ self.cls = "IV2SLS"
    /\ \E cov_type \in CovTypeInputs :
          Fitted([NoArgs EXCEPT !.cov_type = cov_type],
                 IV2SLS_fit(self, endog, exog, instruments, cov_type))
    /\ UNCHANGED <<dataVars, algebra, ctor, self, loc, passes, wmVars, resVars>>

FitIVLIML ==
    /\ pc = "ready" /\ self.cls = "IVLIML"
    /\ \E cov_type \in CovTypeInputs, eig \in EigenValues :
          Fitted([NoArgs EXCEPT !.cov_type = cov_type],
                 IVLIML_fit(self, endog, exog, instruments, cov_type, eig))
    /\ UNCHANGED <<dataVars, algebra, ctor, self, loc, passes, wmVars, resVars>>

\* the state a step of fit's loop leaves: r is [err, val], val the new locals
Stepped(OUT) ==
    \E r \in {OUT} :
        /\ error' = r.err
        /\ loc' = IF r.err = "none" THEN r.val ELSE loc
        /\ pc' = IF r.err = "none" THEN "fit_loop" ELSE "fit_failed"

FitIVGMMBegin ==
    /\ pc = "ready" /\ self.cls = "IVGMM"
    /\ \E iter_limit \in 0..MaxIter, tol \in TolInputs, cov_type \in CovTypeInputs :
          /\ args' = [iter_limit |-> iter_limit, tol |-> tol, cov_type |-> cov_type]
          /\ Stepped(IVGMM_fit_begin(endog, exog, instruments, tol))
    /\ UNCHANGED <<dataVars, algebra, ctor, self, passes, result, wmVars, resVars>>

FitIVGMMPass ==
    /\ pc = "fit_loop"
    /\ LoopContinues(loc.i, args.iter_limit, loc.norm, args.tol)
    /\ Stepped(IVGMM_fit_pass(self, endog, exog, instruments, loc))
    /\ passes' = passes + 1
    /\ UNCHANGED <<dataVars, algebra, ctor, self, args, result, wmVars, resVars>>

FitIVGMMEnd ==
    /\ pc = "fit_loop"
    /\ ~LoopContinues(loc.i, args.iter_limit, loc.norm, args.tol)
    /\ Fitted(args, IVGMM_fit_end(self, endog, loc, args.cov_type))
    /\ UNCHANGED <<dataVars, algebra, ctor, self, loc, passes, wmVars, resVars>>

NextEst ==
    \/ ConstructIV2SLS
    \/ ConstructIVLIML
    \/ ConstructIVGMM
    \/ FitIV2SLS
    \/ FitIVLIML
    \/ FitIVGMMBegin
    \/ FitIVGMMPass
    \/ FitIVGMMEnd

SpecEst == InitEst /\ [][NextEst]_vars

\* fit is one synchronous call: once begun, its loop runs on to the return or the raise
FairSpecEst == SpecEst /\ WF_vars(FitIVGMMPass) /\ WF_vars(FitIVGMMEnd)

(***************************************************************************)
(* A weight-matrix strategy on its own: construction with keyword          *)
(* arguments, then one call of weight_matrix.                              *)
(***************************************************************************)
WMKeys == {"center", "kernel", "bw", "clusters", "bogus"}
KernelInputs == {"bartlett", "tukey"}
BwInputs == {None} \cup {Some(b) : b \in 0..MaxBw}
LabelVectors == {<<a, b, c>> : a \in 0..MaxLabel, b \in 0..MaxLabel, c \in 0..MaxLabel}
ClusterInputs == {None} \cup {Some(c) : c \in LabelVectors}
WMConfigs ==
    {MkConfig(S, center, kernel, bw, clusters) :
        S \in SUBSET WMKeys, center \in BOOLEAN, kernel \in KernelInputs,
        bw \in BwInputs, clusters \in ClusterInputs}
EpsInputs == {<<1, -1, 0>>, <<1, 2, -1>>, <<0, 0, 1>>, <<1, 1, 1>>}

InitWM ==
    /\ \E z2 \in {Trend, Dummy} :
          instruments = Vec([i \in 1..Len(z2) |-> <<ROne, R(z2[i])>>])
    /\ exog = ColVec(IntVec(Dummy))
    /\ endog = ColVec(IntVec(Ones))
    /\ wm_pc = "new" /\ wm_args = [cls |-> "", weight_config |-> EmptyConfig]
    /\ wm_obj = None /\ wm_error = "none" /\ wm_eps = <<>> /\ wm_out = None
    /\ EstIdle /\ ResIdle

\* the state a strategy's constructor leaves: r is [err, val]
WMConstructed(OUT) ==
    \E r \in {OUT} :
        /\ wm_error' = r.err
        /\ wm_obj' = IF r.err = "none" THEN Some(r.val) ELSE None
        /\ wm_pc' = IF r.err = "none" THEN "ready" ELSE "init_failed"

WMConstruct ==
    /\ wm_pc = "new"
    /\ \E cls \in WeightClasses, weight_config \in WMConfigs :
          /\ wm_args' = [cls |-> cls, weight_config |-> weight_config]
          /\ WMConstructed(WeightMatrix_init(cls, weight_config))
    /\ UNCHANGED <<dataVars, estVars, wm_eps, wm_out, resVars>>

\* the state a call of weight_matrix leaves: r is [err, val]
WMCalled(eps, OUT) ==
    /\ wm_eps' = eps
    /\ \E r \in {OUT} :
          /\ wm_error' = r.err
          /\ wm_out' = IF r.err = "none" THEN Some(r.val) ELSE None
          /\ wm_pc' = IF r.err = "none" THEN "called" ELSE "call_failed"
    /\ UNCHANGED <<dataVars, estVars, wm_args, wm_obj, resVars>>

CallHomoskedastic ==
    /\ wm_pc = "ready" /\ wm_obj[1].cls = "HomoskedasticWeightMatrix"
    /\ \E e \in EpsInputs :
          WMCalled(ColVec(IntVec(e)),
                   Homoskedastic_weight_matrix(exog, instruments, ColVec(IntVec(e))))

CallHeteroskedastic ==
    /\ wm_pc = "ready" /\ wm_obj[1].cls = "HeteroskedasticWeightMatrix"
    /\ \E e \in EpsInputs :
          WMCalled(ColVec(IntVec(e)),
                   Heteroskedastic_weight_matrix(wm_obj[1]._config, exog, instruments,
                                                 ColVec(IntVec(e))))

CallKernel ==
    /\ wm_pc = "ready" /\ wm_obj[1].cls = "KernelWeightMatrix"
    /\ \E e \in EpsInputs :
          WMCalled(ColVec(IntVec(e)),
                   Kernel_weight_matrix(wm_obj[1]._config, exog, instruments,
                                        ColVec(IntVec(e))))

CallOneWayClustered ==
    /\ wm_pc = "ready" /\ wm_obj[1].cls = "OneWayClusteredWeightMatrix"
    /\ \E e \in EpsInputs :
          WMCalled(ColVec(IntVec(e)),
                   OneWayClustered_weight_matrix(wm_obj[1]._config, exog, instruments,
                                                 ColVec(IntVec(e))))

NextWM ==
    \/ WMConstruct
    \/ CallHomoskedastic
    \/ CallHeteroskedastic
    \/ CallKernel
    \/ CallOneWayClustered

SpecWM == InitWM /\ [][NextWM]_vars

(***************************************************************************)
(* A results object and the reads of its properties.  computed counts how  *)
(* often the body of each derived statistic has run.                       *)
(***************************************************************************)
ParamInputs == {R(2), R(-3)}
SEInputs == {1, 2}

\* a results object as fit builds it, of nvar parameters p with standard error se
ResultsOf(nvar, p, se, rss, tss) ==
    IVResults_init(Vec([i \in 1..nvar |-> <<p>>]),
                   Vec([i \in 1..nvar |->
                        Vec([j \in 1..nvar |-> IF i = j THEN R(se * se) ELSE RZero])]),
                   RSquared(R(rss), R(tss)), "robust", R(rss), R(tss), ROne)

InitRes ==
    /\ \E nvar \in 1..MaxK, p \in ParamInputs, se \in SEInputs,
          rss \in 0..MaxSS, tss \in 1..MaxSS :
          /\ res = Some(ResultsOf(nvar, p, se, rss, tss))
          /\ \E nobs \in nvar..MaxN : res_model = [nobs |-> nobs, nvar |-> nvar]
    /\ cache = EmptyConfig /\ computed = NoneComputed /\ reads = 0 /\ returned = NoReturn
    /\ endog = <<>> /\ exog = <<>> /\ instruments = <<>>
    /\ EstIdle /\ WMIdle

\* a property read handing back r, which is [err, val]
Read(stat, OUT) ==
    /\ reads < MaxReads
    /\ reads' = reads + 1
    /\ \E r \in {OUT} : returned' = [stat |-> stat, err |-> r.err, val |-> r.val]
    /\ UNCHANGED <<dataVars, estVars, wmVars, res, res_model>>

ReadRsquaredAdj ==
    /\ Read("rsquared_adj", rsquared_adj(res[1], res_model))
    /\ UNCHANGED <<cache, computed>>

ReadStdErrors ==
    /\ Read("std_errors", Ok(std_errors(res[1])))
    /\ computed' = [computed EXCEPT !.std_errors = @ + 1]
    /\ UNCHANGED cache

\* tstats reads std_errors
ReadTstats ==
    /\ Read("tstats", Ok(tstats(res[1])))
    /\ computed' = [computed EXCEPT !.std_errors = @ + 1, !.tstats = @ + 1]
    /\ UNCHANGED cache

\* the first read of pvalues reads tstats and fills the cache
ReadPvalues ==
    IF "pvalues" \in DOMAIN cache
    THEN /\ Read("pvalues", Ok(cache["pvalues"]))
         /\ UNCHANGED <<cache, computed>>
    ELSE /\ Read("pvalues", Ok(PValuesOf(tstats(res[1]))))
         /\ cache' = [key \in {"pvalues"} |-> PValuesOf(tstats(res[1]))]
         /\ computed' = [computed EXCEPT !.std_errors = @ + 1, !.tstats = @ + 1,
                                         !.pvalues = @ + 1]

NextRes ==
    \/ ReadRsquaredAdj
    \/ ReadStdErrors
    \/ ReadTstats
    \/ ReadPvalues

SpecRes == InitRes /\ [][NextRes]_vars

(***************************************************************************)
(* Properties.                                                             *)
(***************************************************************************)
FitReturned == pc \in {"done", "fit_failed"}

\* C1: for valid inputs, IVGMM with the homoskedastic weight strategy fitted
\* with iter_limit = 1 completes, and its parameter vector equals the one
\* IV2SLS.estimate_parameters returns on the same data.
C1_OneStepGMMIs2SLS ==
    (/\ FitReturned
     /\ ctor.cls = "IVGMM" /\ ctor.weight_type = "homoskedastic"
     /\ args.iter_limit = 1
     /\ IV2SLS_estimate_parameters(exog, endog, instruments).err = "none")
    => /\ pc = "done"
       /\ result[1]._params = IV2SLS_estimate_parameters(exog, endog, instruments).val

\* C2: constructing IVGMM with a weight_type outside the weight-matrix
\* registry fails with a configuration error, and no rank computation,
\* pseudoinverse or projection has been executed on the inputs by then.
C2_UnknownWeightTypeFailsBeforeAlgebra ==
    (ctor.cls = "IVGMM" /\ ctor.weight_type \notin WeightNames)
    => /\ pc = "init_failed"
       /\ error = "KeyError"
       /\ \A i \in DOMAIN algebra : algebra[i] \notin {"matrix_rank", "pinv", "projection"}

\* C3: for each estimator, fit with a cov_type outside the covariance
\* registry fails with an unknown-estimator error and returns no results
\* object (unless fit has already failed in its linear algebra).
C3_UnknownCovTypeFails ==
    (/\ FitReturned
     /\ args.cov_type \notin CovarianceNames
     /\ error \notin {"LinAlgError", "UnboundLocalError"})
    => (pc = "fit_failed" /\ error = "KeyError" /\ result = None)

\* C4: each weight-matrix strategy rejects at construction every
\* configuration key outside its own option set, so weight_matrix is never
\* reached with an unknown key; when all keys are recognized the config is
\* the strategy's defaults overridden by exactly the supplied keys.
C4_UnknownKeysRejectedAtConstruction ==
    LET own == CASE wm_args.cls = "KernelWeightMatrix" -> {"kernel", "center", "bw"}
                 [] wm_args.cls = "OneWayClusteredWeightMatrix" -> {"clusters", "center"}
                 [] OTHER -> {"center"}
        given == wm_args.weight_config
        expected == [key \in own |->
                        IF key \in DOMAIN given THEN given[key]
                        ELSE CASE key = "center" -> FALSE
                               [] key = "kernel" -> "bartlett"
                               [] OTHER -> None]
    IN  /\ wm_pc = "init_failed"
           => /\ \E key \in DOMAIN given : key \notin own
              /\ wm_error = "ValueError" /\ wm_obj = None
        /\ wm_pc \in {"ready", "called", "call_failed"}
           => /\ DOMAIN given \subseteq own
              /\ wm_obj[1]._config = expected

C4_Witness ==
    /\ wm_pc = "init_failed" /\ wm_args.cls = "KernelWeightMatrix"
    /\ DOMAIN wm_args.weight_config = {"center", "clusters"}

\* C5: each lazily derived statistic of a results object (standard errors,
\* t-statistics, p-values) is computed at most once over any sequence of
\* reads.
C5_EachStatisticComputedOnce ==
    computed.std_errors <= 1 /\ computed.tstats <= 1 /\ computed.pvalues <= 1

\* C6: the re-weighting loop of IVGMM.fit terminates; it makes at most
\* iter_limit passes, and makes a pass only while the convergence norm is
\* still above tol.
C6_LoopTerminates ==
    /\ [](passes <= args.iter_limit)
    /\ [][passes' # passes => RGt(loc.norm, args.tol)]_vars
    /\ (pc = "fit_loop") ~> FitReturned

C6_Witness ==
    /\ pc = "done" /\ passes = 1 /\ args.iter_limit = 3
    /\ RLe(loc.norm, args.tol)

C8_SingletonClustersAreRobust ==
    LET labels == ClustersOf(wm_obj[1]._config, NRows(instruments))
    IN  (/\ wm_pc = "called" /\ wm_args.cls = "OneWayClusteredWeightMatrix"
         /\ \A i, j \in 1..Len(labels) : i # j => labels[i] # labels[j])
        => wm_out[1] = Heteroskedastic_weight_matrix(wm_obj[1]._config, exog,
                                                     instruments, wm_eps).val

C8_Witness ==
    /\ wm_pc = "called" /\ wm_args.cls = "OneWayClusteredWeightMatrix"
    /\ wm_obj[1]._config["clusters"] = Some(<<2, 0, 1>>)
    /\ wm_obj[1]._config["center"]
    /\ wm_eps = ColVec(IntVec(<<1, 2, -1>>))

\* C9: for a results object whose model has k >= 1 regressors and n > k + 1
\* observations, rsquared_adj <= rsquared, rsquared being the stored
\* 1 - resid_ss / total_ss with resid_ss >= 0 and total_ss > 0.
C9_AdjustedBelowRSquared ==
    (/\ returned.stat = "rsquared_adj"
     /\ res_model.nvar >= 1 /\ res_model.nobs > res_model.nvar + 1)
    => (returned.err = "none" /\ RLe(returned.val, res[1]._r2[1]))

C9_Witness ==
    /\ returned.stat = "rsquared_adj"
    /\ res_model.nvar = 2 /\ res_model.nobs = 4
    /\ RLt(returned.val, res[1]._r2[1])

\* C10: the residual sum of squares stored in the result of IVGMM.fit is
\* e'e for e = y - X params, params the parameter vector of that result.
C10_ResidualsOfReturnedParams ==
    (pc = "done" /\ ctor.cls = "IVGMM")
    => result[1]._rss = SumSq(resids(endog, exog, result[1]._params))

====
